---- MODULE Spec2Model ----
(***************************************************************************)
(* Server side of the SyDeTre chat (src/unnamed/part_000): the two server  *)
(* actions submitUserMessage and performAction, the AI-state handlers      *)
(* onSetAIState / onGetUIState and the projection getUIStateFromAIState.   *)
(*                                                                         *)
(* Every invocation of a server action runs against its own mutable AI     *)
(* state (getMutableAIState(), lines 35 and 101), which starts as the AI   *)
(* state the caller sent with the invocation.  aiState.update(s) and       *)
(* aiState.done(s) replace that state by s and hand s to onSetAIState,     *)
(* which runs asynchronously (it awaits auth()).                           *)
(*                                                                         *)
(* JavaScript strings are TLA+ strings; a JavaScript value that may be     *)
(* undefined or null is a record tagged by its type.                       *)
(***************************************************************************)
EXTENDS Integers, Sequences, FiniteSets, TLC

\* ------------------------------------------------------------------ bounds
\* Number of server-action invocations in one behaviour.
MaxReq == 2

Req == 1..MaxReq

\* ------------------------------------------------------------ input domains
RECURSIVE Repeat(_, _)
Repeat(s, n) == IF n = 0 THEN "" ELSE s \o Repeat(s, n - 1)

\* A 150-character user message (ten characters, fifteen times).
LongContent == Repeat("abcdefghij", 15)

\* Contents the user may submit.
UserContents == {"I have a headache", LongContent}

\* The replies of the upstream model, each as its sequence of text deltas.
Replies == { <<>>, <<"Try resting", " and hydrating">> }

\* The text deltas that occur in them.
Deltas == UNION {{reply[i] : i \in 1..Len(reply)} : reply \in Replies}

\* JavaScript values passed as `details` (details: any, line 32).
Undefined == [t |-> "undefined"]
Null      == [t |-> "null"]
Str(s)    == [t |-> "string", v |-> s]
Obj(k, v) == [t |-> "object", k |-> k, v |-> v]

\* (action, details) pairs a client may dispatch.
ActionInputs == { [action |-> "check vitals", details |-> Obj("bp", Str("120/80"))],
                  [action |-> "ping",         details |-> Undefined],
                  [action |-> "note",         details |-> Str("say \"hi\"")] }

\* What auth() may resolve to: no session, a session without user, a session
\* with a user.
NoSession   == [t |-> "null"]
AnonSession == [t |-> "session", user |-> Null]
UserSession == [t |-> "session", user |-> [t |-> "user", id |-> "user-1"]]
Sessions    == {NoSession, AnonSession, UserSession}

\* session && session.user (lines 190 and 207)
HasUser(sess) == sess.t = "session" /\ sess.user.t = "user"

\* ------------------------------------------------------------------- state
VARIABLES
  call,              \* call[r]: the server action invocation r and its arguments
  pc,                \* pc[r]: where invocation r stands
  original,          \* original[r]: the AI state the caller sent with invocation r
  aiState,           \* aiState[r]: the mutable AI state of invocation r
  sent,              \* sent[r]: the `messages` handed to streamUI (lines 128-134)
  deltas,            \* deltas[r]: the text deltas the upstream model has delivered
  content,           \* content[r]: the text streamUI has accumulated for the callback
  textStream,        \* textStream[r]: the streamable value of line 115 (or undefined)
  display,           \* display[r]: the streamable UI behind result.value (line 164)
  performingAction,  \* performingAction[r]: the streamable UI of line 37
  systemMessage,     \* systemMessage[r]: the streamable UI of line 46
  returned,          \* returned[r]: what the server action returned to its caller
  effects,           \* effects[r]: the side effects of invocation r, in the order made
  session,           \* what auth() resolves to (one session kind per behaviour)
  saved,             \* the chat records handed to saveChat
  thrown,            \* the errors onSetAIState / onGetUIState have raised
  ret                \* what onGetUIState returned, when the latest step ran it

vars == << call, pc, original, aiState, sent, deltas, content, textStream, display,
           performingAction, systemMessage, returned, effects,
           session, saved, thrown, ret >>

reqVars == << call, pc, original, aiState, sent, deltas, content, textStream, display,
              performingAction, systemMessage, returned, effects >>

\* ----------------------------------------------------------------- helpers
\* nanoid(): a fresh opaque string; the k-th id drawn by invocation r (r = 0:
\* module load).
nanoid(r, k) == "id" \o ToString(r) \o "_" \o ToString(k)

\* initialAIState: { chatId: nanoid(), messages: [] }   (line 184)
initialAIState == [chatId |-> nanoid(0, 1), messages |-> <<>>]

\* As AppendMessage, with the spread of the existing messages forgotten.
AppendMessage_NoSpread(state, message) ==
  [state EXCEPT !.messages = <<message>>]

\* { ...aiState.get(), messages: [...aiState.get().messages, message] }
\* (lines 76-86, 103-113, 143-153)
AppendMessage(state, message) ==
  [state EXCEPT !.messages = Append(state.messages, message)]

Message(id, role, text) == [id |-> id, role |-> role, content |-> text]

\* JSON string escaping of the characters " and \ (JSON.stringify, line 83).
RECURSIVE Escape(_)
Escape(s) ==
  IF Len(s) = 0 THEN ""
  ELSE LET c    == SubSeq(s, 1, 1)
           rest == Escape(SubSeq(s, 2, Len(s)))
       IN  IF c = "\"" THEN "\\\"" \o rest
           ELSE IF c = "\\" THEN "\\\\" \o rest
           ELSE c \o rest

Quote(s) == "\"" \o Escape(s) \o "\""

\* JSON.stringify(details) as interpolated by the template literal of line 83:
\* JSON.stringify(undefined) is undefined, which the template prints as
\* "undefined".
JSONStringify(v) ==
  CASE v.t = "undefined" -> "undefined"
    [] v.t = "null"      -> "null"
    [] v.t = "string"    -> Quote(v.v)
    [] v.t = "object"    -> "{" \o Quote(v.k) \o ":" \o Quote(v.v.v) \o "}"

\* As ActionContent, with ${details} interpolated without JSON.stringify.
ActionContent_NoStringify(action, details) ==
  "[User performed action: " \o action \o ". Details: "
     \o (CASE details.t = "undefined" -> "undefined"
           [] details.t = "null"      -> "null"
           [] details.t = "string"    -> details.v
           [] details.t = "object"    -> "[object Object]")
     \o "]"

\* `[User performed action: ${action}. Details: ${JSON.stringify(details)}]`
ActionContent(action, details) ==
  "[User performed action: " \o action \o ". Details: " \o JSONStringify(details) \o "]"

\* As ModelMessages, with the system records left out of the history.
ModelMessages_NoSystem(state) ==
  LET kept == SelectSeq(state.messages, LAMBDA m : m.role # "system")
  IN  [i \in 1..Len(kept) |->
         [role |-> kept[i].role, content |-> kept[i].content, name |-> Undefined]]

\* aiState.get().messages.map(message => ({ role, content, name }))  (lines 128-134)
ModelMessages(state) ==
  [i \in 1..Len(state.messages) |->
     [role    |-> state.messages[i].role,
      content |-> state.messages[i].content,
      name    |-> Undefined]]

\* createStreamableValue('') / .update(v) / .done()   (lines 137, 155, 142)
\* `chunks` is what a reader of .value receives, in order; `curr` is the value
\* the stream holds (update replaces it).
CreateStreamableValue == [closed |-> FALSE, curr |-> "", chunks |-> <<"">>]
StreamUpdate(stream, v) ==
  [stream EXCEPT !.curr = v, !.chunks = Append(stream.chunks, v)]
\* As StreamDone, with the stream left open.
StreamDone_Noop(stream) == stream

StreamDone(stream) == [stream EXCEPT !.closed = TRUE]

\* createStreamableUI(node) / .update(node) / .done(node)
CreateStreamableUI(node) == [closed |-> FALSE, nodes |-> <<node>>]
UIUpdate(ui, node) == [ui EXCEPT !.nodes = Append(ui.nodes, node)]
UIDone(ui, node)   == [closed |-> TRUE, nodes |-> Append(ui.nodes, node)]

\* The rendered nodes.
SpinnerMessage      == [c |-> "SpinnerMessage"]
UserMessage(text)   == [c |-> "UserMessage", children |-> text]
BotMessage(text)    == [c |-> "BotMessage", content |-> text]
LiveBotMessage(r)   == [c |-> "BotMessage", stream |-> r]
SystemMessage(text) == [c |-> "SystemMessage", children |-> text]
StatusNode(spin, text) == [c |-> "div", spinner |-> spin, children |-> text]

\* The program constant of firstMessageContent.substring(0, 100)  (line 215)
TitleMax == 100

Min(a, b) == IF a < b THEN a ELSE b

\* s.substring(0, n)
Substring0(s, n) == SubSeq(s, 1, Min(n, Len(s)))

\* As ChatOf, with the title not truncated.
ChatOf_FullTitle(state, sess) ==
  [id       |-> state.chatId,
   title    |-> state.messages[1].content,
   userId   |-> sess.user.id,
   messages |-> state.messages,
   path     |-> "/chat/" \o state.chatId]

\* The chat record built by onSetAIState (lines 208-224); createdAt is left out.
ChatOf(state, sess) ==
  [id       |-> state.chatId,
   title    |-> Substring0(state.messages[1].content, TitleMax),
   userId   |-> sess.user.id,
   messages |-> state.messages,
   path     |-> "/chat/" \o state.chatId]

\* getUIStateFromAIState (lines 233-246)
NotSystem(message) == message.role # "system"

DisplayOf(message) ==
  IF message.role = "user" THEN UserMessage(message.content)
  ELSE IF message.role = "assistant" THEN BotMessage(message.content)
  ELSE Null

\* As getUIStateFromAIState, without the filter on the role.
getUIStateFromAIState_NoFilter(state) ==
  [i \in 1..Len(state.messages) |->
     [id      |-> state.chatId \o "-" \o ToString(i - 1),
      display |-> DisplayOf(state.messages[i])]]

\* As getUIStateFromAIState, with the id taken from the position in the
\* whole log instead of the position in the filtered list.
getUIStateFromAIState_LogIndex(state) ==
  LET at == [k \in 1..Cardinality({i \in 1..Len(state.messages) : NotSystem(state.messages[i])}) |->
               CHOOSE i \in 1..Len(state.messages) :
                  /\ NotSystem(state.messages[i])
                  /\ Cardinality({j \in 1..i : NotSystem(state.messages[j])}) = k]
  IN  [k \in DOMAIN at |->
         [id      |-> state.chatId \o "-" \o ToString(at[k] - 1),
          display |-> DisplayOf(state.messages[at[k]])]]

\* The assistant branch also tests typeof message.content === 'string'; every
\* content of this model is a string.
getUIStateFromAIState(state) ==
  LET shown == SelectSeq(state.messages, NotSystem)
  IN  [i \in 1..Len(shown) |->
         [id      |-> state.chatId \o "-" \o ToString(i - 1),
          display |-> DisplayOf(shown[i])]]

\* ------------------------------------------------------------ initial state
NoCall == [name |-> "none"]
NoHandler == [op |-> "none"]

Init ==
  /\ call             = [r \in Req |-> NoCall]
  /\ pc               = [r \in Req |-> "idle"]
  /\ original         = [r \in Req |-> initialAIState]
  /\ aiState          = [r \in Req |-> initialAIState]
  /\ sent             = [r \in Req |-> <<>>]
  /\ deltas           = [r \in Req |-> <<>>]
  /\ content          = [r \in Req |-> ""]
  /\ textStream       = [r \in Req |-> Undefined]
  /\ display          = [r \in Req |-> Undefined]
  /\ performingAction = [r \in Req |-> Undefined]
  /\ systemMessage    = [r \in Req |-> Undefined]
  /\ returned         = [r \in Req |-> Undefined]
  /\ effects          = [r \in Req |-> <<>>]
  /\ session          \in Sessions
  /\ saved            = {}
  /\ thrown           = {}
  /\ ret              = NoHandler

\* The AI states a caller can hold and send with an invocation: the initial
\* one, or the final state of an invocation whose aiState.done() has run.
CallerStates == {initialAIState} \cup {aiState[q] : q \in {x \in Req : pc[x] = "done"}}

\* The invocations whose background work (the model stream, the action's
\* task) is still running.
InFlight == {q \in Req : pc[q] \in {"streaming", "sleep1", "sleep2"}}

Did(r, done) == [effects EXCEPT ![r] = effects[r] \o done]

\* Invocations are numbered in the order they start.
NextFree(r) == pc[r] = "idle" /\ \A q \in Req : q < r => pc[q] # "idle"

\* -------------------------------------------------------------- onSetAIState
\* Lines 202-230.  With a user in the session the chat record is built, which
\* reads messages[0].content (a TypeError on an empty log), and saved.
SetOutcome(state) ==
  IF HasUser(session)
  THEN IF Len(state.messages) = 0 THEN "TypeError" ELSE "saved"
  ELSE "skipped"

\* As onSetAIState, without the test of the session.
onSetAIState_NoGate(state) ==
  /\ saved' = saved \cup {[id       |-> state.chatId,
                            title    |-> Substring0(state.messages[1].content, TitleMax),
                            userId   |-> Undefined,
                            messages |-> state.messages,
                            path     |-> "/chat/" \o state.chatId]}
  /\ thrown' = thrown
  /\ ret' = [op |-> "none"]

onSetAIState(state) ==
  /\ saved' = IF SetOutcome(state) = "saved"
              THEN saved \cup {ChatOf(state, session)}
              ELSE saved
  /\ thrown' = IF SetOutcome(state) = "TypeError"
                THEN thrown \cup {[op |-> "onSetAIState", error |-> "TypeError"]}
                ELSE thrown
  /\ ret' = NoHandler

\* aiState.update(s) and aiState.done(s): the state of the invocation is
\* replaced by s, and s is handed to onSetAIState.  The handler awaits only
\* auth() before it saves, and what it saves is fixed by the s it was called
\* with, so its run is part of the step that calls it.
SetAIState(r, state) ==
  /\ aiState' = [aiState EXCEPT ![r] = state]
  /\ onSetAIState(state)

\* --------------------------------------------------------- submitUserMessage
\* return { id: nanoid(), display: result.value }   (lines 162-165)
SubmitReturn(r) == [id |-> nanoid(r, 3), display |-> [ui |-> "result", req |-> r]]

\* Lines 98-166: the user message is appended, the history is handed to
\* streamUI and the action returns the handle of the reply while the reply
\* is still streaming.
SubmitUserMessage(r, text, from) ==
  /\ NextFree(r)
  /\ LET state == AppendMessage(from, Message(nanoid(r, 1), "user", text))
     IN  /\ SetAIState(r, state)
         /\ sent' = [sent EXCEPT ![r] = ModelMessages(state)]
  /\ call'     = [call EXCEPT ![r] = [name |-> "submitUserMessage", content |-> text]]
  /\ original' = [original EXCEPT ![r] = from]
  /\ display'  = [display EXCEPT ![r] = CreateStreamableUI(SpinnerMessage)]
  /\ returned' = [returned EXCEPT ![r] = SubmitReturn(r)]
  /\ pc'       = [pc EXCEPT ![r] = "streaming"]
  /\ effects'  = Did(r, <<"aiState.update", "streamUI">>)
  /\ UNCHANGED << deltas, content, textStream, performingAction, systemMessage, session >>

\* As EnsureTextStream, with a new stream created on every increment.
EnsureTextStream_Always(stream) == [closed |-> FALSE, curr |-> "", chunks |-> <<"">>]

\* if (!textStream) { textStream = createStreamableValue('') ... }  (lines 136-139)
EnsureTextStream(stream) ==
  IF stream = Undefined THEN CreateStreamableValue ELSE stream

\* The creation of line 137 is a side effect of the increment that finds no
\* stream.
CreateEffect(stream) ==
  IF stream = Undefined THEN <<"textStream.create">> ELSE <<>>

\* A further delta is one the upstream model can still send.
CanSend(r, delta) ==
  \E reply \in Replies :
     /\ Len(reply) > Len(deltas[r])
     /\ SubSeq(reply, 1, Len(deltas[r]) + 1) = Append(deltas[r], delta)

\* As TextDelta, with the text received so far appended as the assistant
\* message on every increment.
TextDelta_Commits(r, delta) ==
  /\ pc[r] = "streaming"
  /\ CanSend(r, delta)
  /\ deltas'     = [deltas EXCEPT ![r] = Append(deltas[r], delta)]
  /\ content'    = [content EXCEPT ![r] = content[r] \o delta]
  /\ textStream' = [textStream EXCEPT ![r] = StreamUpdate(EnsureTextStream(textStream[r]), delta)]
  /\ display'    = [display EXCEPT ![r] = UIUpdate(display[r], LiveBotMessage(r))]
  /\ effects'    = Did(r, CreateEffect(textStream[r]) \o <<"textStream.update">>)
  /\ SetAIState(r, AppendMessage(aiState[r],
                     Message(nanoid(r, 2), "assistant", content[r] \o delta)))
  /\ UNCHANGED << call, pc, original, sent, performingAction, systemMessage,
                  returned, session >>

\* The text callback with done = false (lines 135-139, 154-158).
TextDelta(r, delta) ==
  /\ pc[r] = "streaming"
  /\ CanSend(r, delta)
  /\ deltas'     = [deltas EXCEPT ![r] = Append(deltas[r], delta)]
  /\ content'    = [content EXCEPT ![r] = content[r] \o delta]
  /\ textStream' = [textStream EXCEPT ![r] = StreamUpdate(EnsureTextStream(textStream[r]), delta)]
  /\ display'    = [display EXCEPT ![r] = UIUpdate(display[r], LiveBotMessage(r))]
  /\ effects'    = Did(r, CreateEffect(textStream[r]) \o <<"textStream.update">>)
  /\ ret'        = NoHandler
  /\ UNCHANGED << call, pc, original, aiState, sent, performingAction, systemMessage,
                  returned, session, saved, thrown >>

\* As AssistantMessage, with the last delta taken for the content.
AssistantMessage_Delta(r) ==
  Message(nanoid(r, 2), "assistant",
          IF deltas[r] = <<>> THEN "" ELSE deltas[r][Len(deltas[r])])

\* { id: nanoid(), role: 'assistant', content }   (lines 147-151)
AssistantMessage(r) == Message(nanoid(r, 2), "assistant", content[r])

\* textStream.done() and then aiState.done(...)   (lines 142-153)
DoneEffects == <<"textStream.done", "aiState.done">>

\* The text callback with done = true (lines 135-153, 158): the stream is
\* closed and the assistant message is appended with the full content.
TextDone(r) ==
  /\ pc[r] = "streaming"
  /\ deltas[r] \in Replies
  /\ textStream' = [textStream EXCEPT ![r] = StreamDone(EnsureTextStream(textStream[r]))]
  /\ SetAIState(r, AppendMessage(aiState[r], AssistantMessage(r)))
  /\ display'    = [display EXCEPT ![r] = UIDone(display[r], LiveBotMessage(r))]
  /\ pc'         = [pc EXCEPT ![r] = "done"]
  /\ effects'    = Did(r, CreateEffect(textStream[r]) \o DoneEffects)
  /\ UNCHANGED << call, original, sent, deltas, content, performingAction,
                  systemMessage, returned, session >>

\* As ModelFails, with the text received so far committed as the reply.
ModelFails_CommitPartial(r) ==
  /\ pc[r] = "streaming"
  /\ pc'  = [pc EXCEPT ![r] = "failed"]
  /\ aiState' = [aiState EXCEPT ![r] =
                   [@ EXCEPT !.messages = Append(@, [id |-> "partial", role |-> "assistant",
                                                     content |-> content[r]])]]
  /\ ret' = [op |-> "none"]
  /\ UNCHANGED << call, original, sent, deltas, content, textStream, display,
                  performingAction, systemMessage, returned, effects,
                  session, saved, thrown >>

\* The upstream model call fails: no further increment reaches the callback.
ModelFails(r) ==
  /\ pc[r] = "streaming"
  /\ pc'  = [pc EXCEPT ![r] = "failed"]
  /\ ret' = NoHandler
  /\ UNCHANGED << call, original, aiState, sent, deltas, content, textStream, display,
                  performingAction, systemMessage, returned, effects,
                  session, saved, thrown >>

\* ------------------------------------------------------------- performAction
\* return { actionUI, newMessage: { id: nanoid(), display } }   (lines 89-95)
ActionReturn(r) ==
  [actionUI   |-> [ui |-> "performingAction", req |-> r],
   newMessage |-> [id |-> nanoid(r, 2), display |-> [ui |-> "systemMessage", req |-> r]]]

\* Lines 32-47 and 89-95: the two streamable UIs are created, the background
\* task is started and the handles are returned.
PerformAction(r, in, from) ==
  /\ NextFree(r)
  /\ call'     = [call EXCEPT ![r] = [name |-> "performAction", action |-> in.action,
                                      details |-> in.details]]
  /\ original' = [original EXCEPT ![r] = from]
  /\ aiState'  = [aiState EXCEPT ![r] = from]
  /\ performingAction' = [performingAction EXCEPT ![r] =
        CreateStreamableUI(StatusNode(TRUE, "Performing action: " \o in.action \o "..."))]
  /\ systemMessage' = [systemMessage EXCEPT ![r] = CreateStreamableUI(Null)]
  /\ returned' = [returned EXCEPT ![r] = ActionReturn(r)]
  /\ pc'       = [pc EXCEPT ![r] = "sleep1"]
  /\ effects'  = Did(r, <<"performingAction.create", "systemMessage.create">>)
  /\ ret'      = NoHandler
  /\ UNCHANGED << sent, deltas, content, textStream, display, session, saved, thrown >>

\* As ActionProgress, with the status left as it was.
ActionProgress_NoUpdate(r) ==
  /\ pc[r] = "sleep1"
  /\ pc'  = [pc EXCEPT ![r] = "sleep2"]
  /\ ret' = [op |-> "none"]
  /\ UNCHANGED << call, original, aiState, sent, deltas, content, textStream, display,
                  performingAction, systemMessage, returned, effects,
                  session, saved, thrown >>

\* Lines 49-58: after the first sleep the status is updated.
ActionProgress(r) ==
  /\ pc[r] = "sleep1"
  /\ performingAction' = [performingAction EXCEPT ![r] =
        UIUpdate(performingAction[r],
                 StatusNode(TRUE, "Performing action: " \o call[r].action \o "... working on it..."))]
  /\ pc'  = [pc EXCEPT ![r] = "sleep2"]
  /\ effects' = Did(r, <<"performingAction.update">>)
  /\ ret' = NoHandler
  /\ UNCHANGED << call, original, aiState, sent, deltas, content, textStream, display,
                  systemMessage, returned, session, saved, thrown >>

\* As CompleteEffects, with the append made before the two UIs are completed.
CompleteEffects_AppendFirst == <<"aiState.done", "performingAction.done", "systemMessage.done">>

\* performingAction.done(...), systemMessage.done(...), aiState.done(...), in
\* the order of lines 62, 70 and 76; no await separates them.
CompleteEffects == <<"performingAction.done", "systemMessage.done", "aiState.done">>

\* As ActionComplete, with the system-message stream left open.
ActionComplete_NoSystemDone(r) ==
  /\ pc[r] = "sleep2"
  /\ performingAction' = [performingAction EXCEPT ![r] =
        UIDone(performingAction[r],
               StatusNode(FALSE, "Action " \o call[r].action \o " completed successfully."))]
  /\ SetAIState(r, AppendMessage(aiState[r],
                     Message(nanoid(r, 1), "system",
                             ActionContent(call[r].action, call[r].details))))
  /\ pc' = [pc EXCEPT ![r] = "done"]
  /\ effects' = Did(r, <<"performingAction.done", "aiState.done">>)
  /\ UNCHANGED << call, original, sent, deltas, content, textStream, display,
                  systemMessage, returned, session >>

\* Lines 60-86: after the second sleep both UIs are completed and the system
\* message is appended.
ActionComplete(r) ==
  /\ pc[r] = "sleep2"
  /\ performingAction' = [performingAction EXCEPT ![r] =
        UIDone(performingAction[r],
               StatusNode(FALSE, "Action " \o call[r].action \o " completed successfully."))]
  /\ systemMessage' = [systemMessage EXCEPT ![r] =
        UIDone(systemMessage[r],
               SystemMessage("The action " \o call[r].action \o " has been completed successfully."))]
  /\ SetAIState(r, AppendMessage(aiState[r],
                     Message(nanoid(r, 1), "system",
                             ActionContent(call[r].action, call[r].details))))
  /\ pc' = [pc EXCEPT ![r] = "done"]
  /\ effects' = Did(r, CompleteEffects)
  /\ UNCHANGED << call, original, sent, deltas, content, textStream, display,
                  returned, session >>

\* -------------------------------------------------------------- onGetUIState
\* Lines 185-200, run on the AI state `from` the caller holds.
\* As GetOutcome, without the test of the session.
GetOutcome_NoGate(state) == [t |-> "uiState", value |-> getUIStateFromAIState(state)]

GetOutcome(state) ==
  IF HasUser(session)
  THEN [t |-> "uiState", value |-> getUIStateFromAIState(state)]
  ELSE Undefined

OnGetUIState(from) ==
  /\ ret' = [op |-> "onGetUIState", state |-> from, value |-> GetOutcome(from)]
  /\ UNCHANGED << reqVars, session, saved, thrown >>

\* ------------------------------------------------------------------ caller
\* The UI entries the caller of invocation r adds to its UI state: for
\* submitUserMessage its own entry for the user message and the entry the
\* action returned, for performAction the returned newMessage.
AddedEntries(r) ==
  IF call[r].name = "submitUserMessage"
  THEN << [id |-> "client", display |-> UserMessage(call[r].content)], returned[r] >>
  ELSE << returned[r].newMessage >>

\* The UI state of that caller: the projection of the AI state it held,
\* followed by the entries added for r.
ClientUI(r) == getUIStateFromAIState(original[r]) \o AddedEntries(r)

\* What the display of a UI entry shows once its stream has completed: the
\* role of the message it renders.
EntryRole(entry) ==
  IF "ui" \in DOMAIN entry.display
  THEN IF entry.display.ui = "result" THEN "assistant" ELSE "system"
  ELSE IF entry.display.c = "UserMessage" THEN "user" ELSE "assistant"

\* ------------------------------------------------------------ specification
Next ==
  \/ \E r \in Req, text \in UserContents, from \in CallerStates :
        SubmitUserMessage(r, text, from)
  \/ \E r \in Req, delta \in Deltas : TextDelta(r, delta)
  \/ \E r \in Req : TextDone(r)
  \/ \E r \in Req : ModelFails(r)
  \/ \E r \in Req, in \in ActionInputs, from \in CallerStates : PerformAction(r, in, from)
  \/ \E r \in Req : ActionProgress(r)
  \/ \E r \in Req : ActionComplete(r)
  \/ \E from \in CallerStates : OnGetUIState(from)

Spec == Init /\ [][Next]_vars

\* The background task of performAction is started by
\* runAsyncFnWithoutBlocking (line 48) and is not tied to the caller: its two
\* timers fire and its continuations run whenever the event loop is served,
\* so a step of the task that stays enabled is eventually taken.
FairSpec ==
  /\ Spec
  /\ \A r \in Req : WF_vars(ActionProgress(r)) /\ WF_vars(ActionComplete(r))

\* ================================================================== claims
Started == {r \in Req : pc[r] # "idle"}
Submits == {r \in Started : call[r].name = "submitUserMessage"}
Actions == {r \in Started : call[r].name = "performAction"}

IsPrefix(s, t) == Len(s) <= Len(t) /\ \A i \in 1..Len(s) : s[i] = t[i]

RECURSIVE Concat(_)
Concat(chunks) == IF chunks = <<>> THEN "" ELSE Head(chunks) \o Concat(Tail(chunks))

\* The positions of the messages of `state` whose role is not system.
Shown(state) == {i \in 1..Len(state.messages) : state.messages[i].role # "system"}

\* `ui` has one entry for each message of `state` that is not a system
\* message, and none for a system message, in the order of those messages:
\* the k-th entry displays the message that has k - 1 non-system messages
\* before it.
ProjectsExactly(state, ui) ==
  /\ Len(ui) = Cardinality(Shown(state))
  /\ \A i \in Shown(state) :
        LET k == Cardinality({j \in Shown(state) : j <= i})
        IN  /\ ui[k].display.c = (IF state.messages[i].role = "user"
                                  THEN "UserMessage" ELSE "BotMessage")
            /\ IF state.messages[i].role = "user"
               THEN ui[k].display.children = state.messages[i].content
               ELSE ui[k].display.content = state.messages[i].content

\* C1: for every conversation state S, getUIStateFromAIState(S) has exactly
\* one entry per message of S whose role is not system, no entry for a system
\* message, and the entries are in the order of those messages.  Stated for
\* the state of every invocation and on what onGetUIState returns.
C1_ProjectionExact ==
  /\ \A r \in Started : ProjectsExactly(aiState[r], getUIStateFromAIState(aiState[r]))
  /\ (ret.op = "onGetUIState" /\ ret.value # Undefined)
        => ProjectsExactly(ret.state, ret.value.value)

C1_Witness ==
  /\ ret.op = "onGetUIState"
  /\ ret.value # Undefined
  /\ Len(ret.value.value) >= 2
  /\ \E i \in 1..Len(ret.state.messages) : ret.state.messages[i].role = "system"

\* C2: when submitUserMessage(c) has run on a log L and the model stream has
\* completed with full content t, the log is L followed by exactly one user
\* message with content c and then one assistant message with content t.
C2_SubmitAppendsUserThenAssistant ==
  \A r \in Submits :
     pc[r] = "done" =>
        LET L == original[r].messages
            M == aiState[r].messages
        IN  /\ Len(M) = Len(L) + 2
            /\ IsPrefix(L, M)
            /\ M[Len(L) + 1].role = "user"
            /\ M[Len(L) + 1].content = call[r].content
            /\ M[Len(L) + 2].role = "assistant"
            /\ M[Len(L) + 2].content = Concat(deltas[r])

C2_Witness ==
  \E r \in Submits :
     /\ pc[r] = "done"
     /\ original[r].messages # <<>>
     /\ Len(deltas[r]) = 2

\* The content the system message must have for each dispatched input,
\* written out.
ExpectedActionContent(c) ==
  CASE c.action = "check vitals" ->
         "[User performed action: check vitals. Details: {\"bp\":\"120/80\"}]"
    [] c.action = "ping" ->
         "[User performed action: ping. Details: undefined]"
    [] c.action = "note" ->
         "[User performed action: note. Details: \"say \\\"hi\\\"\"]"

\* C3: a dispatch of performAction(A, D) appends nothing before its terminal
\* phase, and at the terminal phase it has appended exactly one message, of
\* role system and content "[User performed action: A. Details: <JSON of D>]".
C3_ActionAppendsOneSystemMessage ==
  \A r \in Actions :
     LET L == original[r].messages
         M == aiState[r].messages
     IN  /\ pc[r] \in {"sleep1", "sleep2"} => M = L
         /\ pc[r] = "done" =>
               /\ Len(M) = Len(L) + 1
               /\ IsPrefix(L, M)
               /\ M[Len(M)].role = "system"
               /\ M[Len(M)].content = ExpectedActionContent(call[r])

C3_Witness ==
  \E r \in Actions :
     /\ pc[r] = "done"
     /\ call[r].details.t = "object"
     /\ original[r].messages # <<>>

C5_SavedNonEmptyUnderSession ==
  /\ saved # {} => HasUser(session)
  /\ \A chat \in saved : Len(chat.messages) >= 1 /\ chat.userId = session.user.id
  /\ thrown = {}

C5_Witness ==
  /\ HasUser(session)
  /\ Cardinality(saved) >= 2

\* C6: while auth() gives no identity, onSetAIState writes no chat record,
\* onGetUIState returns no UI state, neither raises an error, and a run of
\* onGetUIState leaves the conversation states as they were.
C6_NoIdentityNoOp ==
  [][ ~HasUser(session) =>
        /\ saved' = {}
        /\ thrown' = {}
        /\ ret'.op = "onGetUIState" => (ret'.value = Undefined /\ aiState' = aiState)
    ]_vars

C6_Witness ==
  /\ ~HasUser(session)
  /\ ret.op = "onGetUIState"
  /\ ret.state.messages # <<>>
  /\ \E r \in Req : pc[r] = "done"

\* C7: every chat record written has as title the first min(100, length)
\* characters of the content of the first message of its log, as id the
\* chatId of the conversation and as path "/chat/" followed by that chatId.
C7_ChatRecordFields ==
  \A chat \in saved :
     LET first == chat.messages[1].content
     IN  /\ Len(chat.title) = (IF Len(first) < 100 THEN Len(first) ELSE 100)
         /\ SubSeq(first, 1, Len(chat.title)) = chat.title
         /\ first = LongContent => chat.title = Repeat("abcdefghij", 10)
         /\ chat.path = "/chat/" \o chat.id
         /\ \E r \in Started :
               /\ chat.id = aiState[r].chatId
               /\ IsPrefix(chat.messages, aiState[r].messages)

C7_Witness ==
  \E chat \in saved :
     /\ Len(chat.messages[1].content) = 150
     /\ Len(chat.title) = 100
     /\ Len(chat.messages) >= 2

\* C8: the log of an invocation only grows at its end: in every step, for
\* every invocation, the messages before the step are a prefix of the
\* messages after it, whatever the other invocations do in between.
C8_AppendOnly ==
  [][ \A r \in Started : IsPrefix(aiState[r].messages, aiState'[r].messages) ]_vars

C8_Witness ==
  \E r \in Submits, q \in Started :
     /\ q # r
     /\ pc[r] = "done"
     /\ Len(aiState[r].messages) = 2
     /\ pc[q] \in {"streaming", "sleep2"}
     /\ original[q] = original[r]

\* No assistant message among the messages invocation r has appended.
NoAssistantAppended(r) ==
  \A i \in (Len(original[r].messages) + 1)..Len(aiState[r].messages) :
     aiState[r].messages[i].role # "assistant"

\* C9: once the upstream model call of a request has failed, the request
\* stays failed and its log holds no assistant message of that request, then
\* or later, however many increments had been streamed.
C9_FailedAppendsNoAssistant ==
  [][ \A r \in Req :
         /\ pc'[r] = "failed" => NoAssistantAppended(r)'
         /\ pc[r] = "failed" => (pc'[r] = "failed" /\ aiState'[r] = aiState[r])
    ]_vars

C9_Witness ==
  \E r \in Submits :
     /\ pc[r] = "failed"
     /\ Len(deltas[r]) >= 1
     /\ textStream[r] # Undefined

\* C10: the history submitUserMessage sends to the model is the whole log
\* at that moment (the caller's log followed by the new user message), in
\* log order, with the messages of every role, system records included.
C10_HistoryIsWholeLog ==
  \A r \in Submits :
     LET L == original[r].messages
     IN  /\ Len(sent[r]) = Len(L) + 1
         /\ \A i \in 1..Len(L) :
               sent[r][i].role = L[i].role /\ sent[r][i].content = L[i].content
         /\ sent[r][Len(L) + 1].role = "user"
         /\ sent[r][Len(L) + 1].content = call[r].content

C10_Witness ==
  \E r \in Submits :
     /\ Len(sent[r]) >= 2
     /\ \E i \in 1..Len(sent[r]) : sent[r][i].role = "system"

\* The positions of effect e among the side effects of invocation r.
At(r, e) == {i \in 1..Len(effects[r]) : effects[r][i] = e}

StatusEffects == {"performingAction.create", "performingAction.update", "performingAction.done"}

\* C11: the side effects of a performAction invocation come in one order:
\* every update of the status stream, the terminal one included, comes before
\* the completion of the system-message stream, which comes before the append
\* of the system message; a completed invocation has made each of the three
\* terminal effects exactly once, the append last, and an invocation whose
\* log has grown has both streams closed.
C11_ActionEffectOrder ==
  \A r \in Actions :
     /\ \A e \in StatusEffects : \A i \in At(r, e), j \in At(r, "systemMessage.done") : i < j
     /\ \A i \in At(r, "systemMessage.done"), j \in At(r, "aiState.done") : i < j
     /\ pc[r] = "done" =>
           /\ \A e \in {"performingAction.done", "systemMessage.done", "aiState.done"} :
                 Cardinality(At(r, e)) = 1
           /\ At(r, "performingAction.update") # {}
           /\ effects[r][Len(effects[r])] = "aiState.done"
     /\ aiState[r] # original[r] =>
           /\ performingAction[r].closed
           /\ systemMessage[r].closed
           /\ At(r, "aiState.done") # {}

C11_Witness ==
  \E r \in Actions :
     /\ pc[r] = "done"
     /\ Len(effects[r]) = 6
     /\ aiState[r].messages[Len(aiState[r].messages)].role = "system"

\* The three values the status stream of performAction(a, ...) takes: started,
\* in progress, done (lines 38-43, 52-57, 63-67).
StatusTriple(a) ==
  << StatusNode(TRUE, "Performing action: " \o a \o "..."),
     StatusNode(TRUE, "Performing action: " \o a \o "... working on it..."),
     StatusNode(FALSE, "Action " \o a \o " completed successfully.") >>

\* C12: the status stream of a performAction invocation only moves forward:
\* its values are, in order, a prefix of started, in progress, done; it is
\* closed exactly when it has taken all three; every step leaves its earlier
\* values in place and adds at most one; once closed it is not updated again.
C12_StatusMonotone ==
  [][ \A r \in Req :
         (pc'[r] # "idle" /\ call'[r].name = "performAction") =>
            LET new == performingAction'[r]
                old == performingAction[r]
            IN  /\ Len(new.nodes) >= 1
                /\ IsPrefix(new.nodes, StatusTriple(call'[r].action))
                /\ new.closed <=> Len(new.nodes) = 3
                /\ new.closed <=> pc'[r] = "done"
                /\ pc[r] # "idle" =>
                      /\ IsPrefix(old.nodes, new.nodes)
                      /\ Len(new.nodes) <= Len(old.nodes) + 1
                      /\ old.closed => new = old
    ]_vars

C12_Witness ==
  \E r \in Actions :
     /\ performingAction[r].closed
     /\ performingAction[r].nodes = StatusTriple("ping")
     /\ \E q \in Started : q > r

\* The roles of the messages of `state` that are not system messages, in
\* log order.
ShownRoles(state) ==
  LET shown == SelectSeq(state.messages, NotSystem)
  IN  [i \in 1..Len(shown) |-> shown[i].role]

\* C13: once an invocation has completed its append, the UI state of its
\* caller (what it showed before, then the UI entries submitUserMessage or
\* performAction returned) has the same number of entries, in the same
\* order, as the messages of the log whose role is not system; and so has
\* the projection of the log.
C13_UIMatchesFilteredLog ==
  \A r \in Started :
     pc[r] = "done" =>
        /\ Len(ClientUI(r)) = Cardinality(Shown(aiState[r]))
        /\ [i \in 1..Len(ClientUI(r)) |-> EntryRole(ClientUI(r)[i])] = ShownRoles(aiState[r])
        /\ ProjectsExactly(aiState[r], getUIStateFromAIState(aiState[r]))

\* The invocations whose assistant or system message has been appended.
Committed == {r \in Started : pc[r] = "done"}

\* C14: under a session with a user, saveChat is invoked exactly at the
\* commits: the records handed to it are those of the states in which an
\* invocation appended its assistant or system message, each holding that
\* message as its last, and the append of the user message that precedes
\* the model call hands nothing to it.
C14_PersistOnlyAtCommit ==
  HasUser(session) =>
     /\ saved = {ChatOf(aiState[r], session) : r \in Committed}
     /\ \A chat \in saved :
           chat.messages[Len(chat.messages)].role \in {"assistant", "system"}
     /\ \A r \in Submits :
           pc[r] = "streaming" => ChatOf(aiState[r], session) \notin saved

\* An invocation whose caller sent the initial state starts a conversation.
Creates(q) == original[q] = initialAIState

\* C15: a conversation is created with no messages and a fresh chatId: when
\* an invocation starts a conversation from the initial state after another
\* conversation has already had a message appended and completed, the new
\* conversation's chatId is not the chatId of that earlier one.
C15_FreshChatId ==
  [][ \A q \in Req :
         (pc[q] = "idle" /\ pc'[q] # "idle" /\ Creates(q)') =>
            /\ original'[q].messages = <<>>
            /\ \A r \in Committed : original'[q].chatId # aiState[r].chatId
    ]_vars

\* C16: a run of the projection has no side effect and its result is fixed
\* by the state it is given: the step that runs it leaves every conversation
\* state, the saved records and the errors as they were; the result has one
\* entry per message that is not a system message, the k-th with the id
\* "<chatId>-<k - 1>" (the position in the filtered list) and the display of
\* the k-th such message; and a second run on the same state returns the
\* same result.
C16_ProjectionPure ==
  [][ ret'.op = "onGetUIState" =>
        /\ aiState' = aiState /\ original' = original
        /\ saved' = saved /\ thrown' = thrown
        /\ ret'.value # Undefined =>
              LET S  == ret'.state
                  ui == ret'.value.value
              IN  /\ Len(ui) = Cardinality(Shown(S))
                  /\ \A i \in Shown(S) :
                        LET k == Cardinality({j \in Shown(S) : j <= i})
                        IN  /\ ui[k].id = S.chatId \o "-" \o ToString(k - 1)
                            /\ ui[k].display =
                                  (IF S.messages[i].role = "user"
                                   THEN [c |-> "UserMessage", children |-> S.messages[i].content]
                                   ELSE [c |-> "BotMessage", content |-> S.messages[i].content])
        /\ (ret.op = "onGetUIState" /\ ret.state = ret'.state) => ret'.value = ret.value
    ]_vars

C16_Witness ==
  /\ ret.op = "onGetUIState"
  /\ ret.value # Undefined
  /\ ret.state.messages # <<>>
  /\ ret.state.messages[1].role = "system"
  /\ Len(ret.value.value) >= 1
  /\ ret.value.value[1].id = "id0_1-0"

\* C17: within one generation the increments reach the text stream in the
\* order they arrive (what the stream has delivered is its initial empty
\* value followed by the deltas, in order); an assistant message is in the
\* log only when the terminal increment has been received and the stream is
\* closed; and the close comes after every update and before the append.
C17_OrderedThenAppended ==
  \A r \in Submits :
     /\ textStream[r] # Undefined => textStream[r].chunks = <<"">> \o deltas[r]
     /\ ~NoAssistantAppended(r) =>
           /\ pc[r] = "done"
           /\ deltas[r] \in Replies
           /\ textStream[r] # Undefined
           /\ textStream[r].closed
     /\ pc[r] \in {"streaming", "failed"} =>
           Len(aiState[r].messages) = Len(original[r].messages) + 1
     /\ \A i \in At(r, "textStream.update"), j \in At(r, "textStream.done") : i < j
     /\ \A i \in At(r, "textStream.done"), j \in At(r, "aiState.done") : i < j
     /\ Cardinality(At(r, "textStream.update")) = Len(deltas[r])

C17_Witness ==
  \E r \in Submits :
     /\ pc[r] = "done"
     /\ textStream[r].chunks = <<"", "Try resting", " and hydrating">>
     /\ aiState[r].messages[Len(aiState[r].messages)].content = "Try resting and hydrating"

\* C18: the text stream of a generation goes from open to closed exactly
\* once.  It does not exist before the first increment and exists from then
\* on, created open even when the first increment is the terminal one; it is
\* closed exactly when the terminal increment has been handled; once closed
\* it is never changed again; it is created once and closed at most once,
\* the creation first.
C18_OpenThenClosedOnce ==
  [][ \A r \in Req :
         (pc'[r] # "idle" /\ call'[r].name = "submitUserMessage") =>
            /\ textStream'[r] = Undefined <=> (deltas'[r] = <<>> /\ pc'[r] # "done")
            /\ textStream[r] # Undefined => textStream'[r] # Undefined
            /\ textStream'[r] # Undefined => (textStream'[r].closed <=> pc'[r] = "done")
            /\ (textStream[r] # Undefined /\ textStream[r].closed) =>
                  (textStream'[r] = textStream[r] /\ deltas'[r] = deltas[r])
            /\ Cardinality(At(r, "textStream.create")') <= 1
            /\ Cardinality(At(r, "textStream.done")') <= 1
            /\ \A i \in At(r, "textStream.create")', j \in At(r, "textStream.done")' : i < j
            /\ pc'[r] = "done" =>
                  (At(r, "textStream.create")' # {} /\ At(r, "textStream.done")' # {})
    ]_vars

C18_Witness ==
  \E r \in Submits :
     /\ pc[r] = "done"
     /\ deltas[r] = <<>>
     /\ textStream[r] = [closed |-> TRUE, curr |-> "", chunks |-> <<"">>]
     /\ effects[r] = <<"aiState.update", "streamUI", "textStream.create",
                       "textStream.done", "aiState.done">>

\* Invocation r is a dispatched action.
Dispatched(r) == pc[r] # "idle" /\ call[r].name = "performAction"

\* Invocation r has reached the terminal phase of its action.
Terminal(r) ==
  /\ Dispatched(r)
  /\ pc[r] = "done"
  /\ performingAction[r].closed
  /\ systemMessage[r].closed
  /\ Len(aiState[r].messages) = Len(original[r].messages) + 1
  /\ aiState[r].messages[Len(aiState[r].messages)].role = "system"

\* C19: a dispatched action cannot be taken back and, with the background
\* task scheduled fairly, reaches its terminal phase: the status stream is
\* closed, the system-message stream is completed and the system message is
\* appended, whatever the caller and the other invocations do meanwhile.
C19_ActionTerminates ==
  \A r \in Req : Dispatched(r) ~> Terminal(r)

C19_Witness ==
  \E r \in Actions, q \in Submits :
     /\ r < q
     /\ Terminal(r)
     /\ pc[q] = "streaming"
     /\ original[q] = original[r]

\* The log of `state` holds exactly one message with the given id.
HoldsOnce(state, id) ==
  Cardinality({i \in 1..Len(state.messages) : state.messages[i].id = id}) = 1

\* The log of `state` holds the user and the assistant message of the
\* generation r and the system message of the action q, each exactly once,
\* after the messages both started from.
HoldsAllThree(state, r, q) ==
  /\ IsPrefix(original[r].messages, state.messages)
  /\ Len(state.messages) = Len(original[r].messages) + 3
  /\ HoldsOnce(state, nanoid(r, 1))
  /\ HoldsOnce(state, nanoid(r, 2))
  /\ HoldsOnce(state, nanoid(q, 1))

\* C20: a generation r and an action q on the same conversation that are in
\* flight at the same time have their appends serialized.  Stated for the
\* step that completes the second of the two while the other, started later,
\* has already completed (so the two overlapped): the append of that step
\* extends the log as it stands, so the resulting log holds what the other
\* has appended, and the conversation then has a log with the user message,
\* the assistant message and the system message, each exactly once.
C20_ConcurrentAppendsSerialized ==
  [][ \A r \in Submits, q \in Actions :
         /\ original[r] = original[q]
         /\ \/ (r < q /\ r \in InFlight /\ pc[q] = "done" /\ pc'[r] = "done")
            \/ (q < r /\ q \in InFlight /\ pc[r] = "done" /\ pc'[q] = "done")
         => \/ HoldsAllThree(aiState'[r], r, q)
            \/ HoldsAllThree(aiState'[q], r, q)
    ]_vars

====
